---- MODULE Spec2Model ----
(***************************************************************************)
(* Model of the content-monetization pipeline of scripts/affiliate_manager *)
(* (class AffiliateManager): the product relevance scorer and the content  *)
(* rewriter (link insertion, recommendation block, email capture, ad unit  *)
(* and process_content, which runs the four in a row), and of the          *)
(* orchestrator of scripts/automation_orchestrator that drives it          *)
(* (generate_daily_content, run_automation, run_once).                     *)
(*                                                                         *)
(* Text.  A Python str is modelled as a sequence of elements.  An element  *)
(* that is a one-character string is that character.  An element that is a *)
(* longer string is a literal chunk: a fixed part of a template of the     *)
(* program (of a generated URL, of an anchor tag, of an inserted block) or *)
(* one of the tags <h2>, </h2>, <p>, </p> of the content; every chunk      *)
(* starts and ends, where it can touch a character, with a non-word        *)
(* character and holds no catalog keyword, so for keyword matching it      *)
(* behaves as one non-word character.                                      *)
(***************************************************************************)
EXTENDS Integers, Sequences, FiniteSets, TLC

VARIABLES
    products,          \* self.products, the catalog held by the manager
    input_content,     \* the content string the caller passed in
    content,           \* the local `content` of the running method
    pc,                \* position of the caller / of the running method
    max_products,      \* argument of the last find_relevant_products call
    scores,            \* relevance_score of each catalog product in that call
    scored,            \* list returned by that call (catalog indices)
    relevant_products, \* local of insert_affiliate_links (catalog indices)
    prod_i,            \* index of the outer for loop over relevant_products
    insertion_points,  \* local of insert_affiliate_links
    point_i,           \* index of the inner for loop over insertion_points
    inserted_links,    \* local of insert_affiliate_links (the returned list)
    recommendation_html, \* result of generate_recommendation_section
    config,            \* self.config, the loaded configuration
    caller,            \* "process_content" while that method runs, else "none"
    monetization_report, \* local of process_content (the returned report)
    linked_content,    \* the content insert_affiliate_links returned to process_content
    step_input,        \* the content passed to the operation called last
    call_log,          \* names of the operations called so far, in order
    error,             \* the exception that was raised, or "none"
    mode,              \* args.mode of the orchestrator's main: "run" or "once"
    opc,               \* position of main / run_automation / run_once
    gpc,               \* position of the running generate_daily_content
    posts_dir,         \* the files of /workspace/content/posts, by filepath
    generated_files,   \* local of generate_daily_content (filepaths)
    file_i,            \* index of its for loop over generated_files
    processed_posts,   \* local of generate_daily_content (post dictionaries)
    social_results,    \* local of generate_daily_content, unbound until set
    medium_enabled,    \* social.medium.enabled and a Medium token is set
    daily_report,      \* the daily report file: empty, or the report saved last
    log,               \* the error and warning lines logged, in order
    raised,            \* the exception that ended main, or "none"
    polls              \* passes of the polling loop begun so far

\* the variables of process_content and of the calls of the block operations
pvars == << config, caller, monetization_report, linked_content, step_input,
            call_log, error >>

\* the variables of the orchestrator (scripts/automation_orchestrator)
ovars == << mode, opc, gpc, posts_dir, generated_files, file_i,
            processed_posts, social_results, medium_enabled, daily_report,
            log, raised, polls >>

\* the variables of the affiliate manager
avars == << products, input_content, content, pc, max_products, scores, scored,
            relevant_products, prod_i, insertion_points, point_i,
            inserted_links, recommendation_html, config, caller,
            monetization_report, linked_content, step_input, call_log, error >>

vars == << avars, ovars >>

----------------------------------------------------------------------------
(* Characters and str primitives *)

UpperCase == <<"A","B","C","D","E","F","G","H","I","J","K","L","M",
               "N","O","P","Q","R","S","T","U","V","W","X","Y","Z">>
LowerCase == <<"a","b","c","d","e","f","g","h","i","j","k","l","m",
               "n","o","p","q","r","s","t","u","v","w","x","y","z">>
Digits == {"0","1","2","3","4","5","6","7","8","9"}

UpperSet == {UpperCase[i] : i \in 1..Len(UpperCase)}
LowerSet == {LowerCase[i] : i \in 1..Len(LowerCase)}

\* \w of the re module: letters, digits and the underscore
WordChars == UpperSet \cup LowerSet \cup Digits \cup {"_"}

ToLower == [c \in UpperSet |-> LowerCase[CHOOSE i \in 1..Len(UpperCase) : UpperCase[i] = c]]

\* str.lower() on one element (chunks are left as they are)
lower_char(c) == IF c \in UpperSet THEN ToLower[c] ELSE c

\* str.lower()
lower(s) == [i \in 1..Len(s) |-> lower_char(s[i])]

\* s[i : i+len(k)] == k
StartsAt(s, k, i) ==
    /\ i >= 1
    /\ i + Len(k) - 1 <= Len(s)
    /\ \A j \in 1..Len(k) : s[i + j - 1] = k[j]

\* the Python expression  k in s
str_in(k, s) == \E i \in 1..(Len(s) - Len(k) + 1) : StartsAt(s, k, i)

\* str.replace('_', ' ')
replace_underscore(s) == [i \in 1..Len(s) |-> IF s[i] = "_" THEN " " ELSE s[i]]

\* urllib.parse.quote_plus on a value made of letters, digits and spaces
quote_plus(s) == [i \in 1..Len(s) |-> IF s[i] = " " THEN "+" ELSE s[i]]

\* s[:n]
Prefix(s, n) == SubSeq(s, 1, IF n < Len(s) THEN n ELSE Len(s))

----------------------------------------------------------------------------
(* The catalog (amazon_url and clickbank_url are read by no method and are  *)
(* left out)                                                                *)

load_affiliate_products ==
    <<
      [ name |-> (* Hatch Baby Rest Sound Machine *)
            <<"H","a","t","c","h"," ","B","a","b","y"," ","R","e","s","t"," ","S","o","u","n","d"," ","M","a","c","h","i","n","e">>,
        category |-> (* sound_machine *)
            <<"s","o","u","n","d","_","m","a","c","h","i","n","e">>,
        amazon_asin |-> <<"B","0","7","8","K","2","X","M","J","Y">>,
        clickbank_id |-> <<>>,
        price_range |-> <<"$","6","0","-","8","0">>,
        description |-> (* Smart sound machine with app control and night light *)
            <<"S","m","a","r","t"," ","s","o","u","n","d"," ","m","a","c","h","i","n","e"," ","w","i","t","h"," ","a","p","p"," ","c","o","n","t","r","o","l"," ","a","n","d"," ","n","i","g","h","t"," ","l","i","g","h","t">>,
        keywords |-> <<
            (* sound machine *) <<"s","o","u","n","d"," ","m","a","c","h","i","n","e">>,
            (* white noise *) <<"w","h","i","t","e"," ","n","o","i","s","e">>,
            (* night light *) <<"n","i","g","h","t"," ","l","i","g","h","t">>,
            (* sleep environment *) <<"s","l","e","e","p"," ","e","n","v","i","r","o","n","m","e","n","t">> >> ],
      [ name |-> (* Baby Sleep Miracle Guide *)
            <<"B","a","b","y"," ","S","l","e","e","p"," ","M","i","r","a","c","l","e"," ","G","u","i","d","e">>,
        category |-> (* sleep_guide *)
            <<"s","l","e","e","p","_","g","u","i","d","e">>,
        amazon_asin |-> <<>>,
        clickbank_id |-> <<"b","a","b","y","s","l","e","e","p","1">>,
        price_range |-> <<"$","3","7","-","4","7">>,
        description |-> (* Complete baby sleep training system by clinical psychologist *)
            <<"C","o","m","p","l","e","t","e"," ","b","a","b","y"," ","s","l","e","e","p"," ","t","r","a","i","n","i","n","g"," ","s","y","s","t","e","m"," ","b","y"," ","c","l","i","n","i","c","a","l"," ","p","s","y","c","h","o","l","o","g","i","s","t">>,
        keywords |-> <<
            (* sleep training *) <<"s","l","e","e","p"," ","t","r","a","i","n","i","n","g">>,
            (* sleep guide *) <<"s","l","e","e","p"," ","g","u","i","d","e">>,
            (* baby sleep method *) <<"b","a","b","y"," ","s","l","e","e","p"," ","m","e","t","h","o","d">>,
            (* sleep schedule *) <<"s","l","e","e","p"," ","s","c","h","e","d","u","l","e">> >> ],
      [ name |-> (* Nested Bean Zen Sack Sleep Sack *)
            <<"N","e","s","t","e","d"," ","B","e","a","n"," ","Z","e","n"," ","S","a","c","k"," ","S","l","e","e","p"," ","S","a","c","k">>,
        category |-> (* sleep_sack *)
            <<"s","l","e","e","p","_","s","a","c","k">>,
        amazon_asin |-> <<"B","0","7","Q","K","Z","J","8","Q","1">>,
        clickbank_id |-> <<>>,
        price_range |-> <<"$","3","0","-","4","0">>,
        description |-> (* Weighted sleep sack that mimics parent's touch *)
            <<"W","e","i","g","h","t","e","d"," ","s","l","e","e","p"," ","s","a","c","k"," ","t","h","a","t"," ","m","i","m","i","c","s"," ","p","a","r","e","n","t","'","s"," ","t","o","u","c","h">>,
        keywords |-> <<
            (* sleep sack *) <<"s","l","e","e","p"," ","s","a","c","k">>,
            (* swaddle *) <<"s","w","a","d","d","l","e">>,
            (* weighted *) <<"w","e","i","g","h","t","e","d">>,
            (* safe sleep *) <<"s","a","f","e"," ","s","l","e","e","p">> >> ],
      [ name |-> (* Owlet Smart Sock 3 *)
            <<"O","w","l","e","t"," ","S","m","a","r","t"," ","S","o","c","k"," ","3">>,
        category |-> (* baby_monitor *)
            <<"b","a","b","y","_","m","o","n","i","t","o","r">>,
        amazon_asin |-> <<"B","0","7","7","Q","N","Z","5","D","G">>,
        clickbank_id |-> <<>>,
        price_range |-> <<"$","2","5","0","-","3","0","0">>,
        description |-> (* Smart baby monitor that tracks heart rate and oxygen *)
            <<"S","m","a","r","t"," ","b","a","b","y"," ","m","o","n","i","t","o","r"," ","t","h","a","t"," ","t","r","a","c","k","s"," ","h","e","a","r","t"," ","r","a","t","e"," ","a","n","d"," ","o","x","y","g","e","n">>,
        keywords |-> <<
            (* baby monitor *) <<"b","a","b","y"," ","m","o","n","i","t","o","r">>,
            (* smart sock *) <<"s","m","a","r","t"," ","s","o","c","k">>,
            (* heart rate *) <<"h","e","a","r","t"," ","r","a","t","e">>,
            (* peace of mind *) <<"p","e","a","c","e"," ","o","f"," ","m","i","n","d">> >> ],
      [ name |-> (* The Happy Sleeper Book *)
            <<"T","h","e"," ","H","a","p","p","y"," ","S","l","e","e","p","e","r"," ","B","o","o","k">>,
        category |-> (* sleep_book *)
            <<"s","l","e","e","p","_","b","o","o","k">>,
        amazon_asin |-> <<"0","1","4","3","1","0","8","8","0","8">>,
        clickbank_id |-> <<>>,
        price_range |-> <<"$","1","5","-","2","0">>,
        description |-> (* Evidence-based approach to baby and toddler sleep *)
            <<"E","v","i","d","e","n","c","e","-","b","a","s","e","d"," ","a","p","p","r","o","a","c","h"," ","t","o"," ","b","a","b","y"," ","a","n","d"," ","t","o","d","d","l","e","r"," ","s","l","e","e","p">>,
        keywords |-> <<
            (* sleep book *) <<"s","l","e","e","p"," ","b","o","o","k">>,
            (* sleep training book *) <<"s","l","e","e","p"," ","t","r","a","i","n","i","n","g"," ","b","o","o","k">>,
            (* gentle methods *) <<"g","e","n","t","l","e"," ","m","e","t","h","o","d","s">> >> ],
      [ name |-> (* Blackout Curtains for Nursery *)
            <<"B","l","a","c","k","o","u","t"," ","C","u","r","t","a","i","n","s"," ","f","o","r"," ","N","u","r","s","e","r","y">>,
        category |-> (* room_darkening *)
            <<"r","o","o","m","_","d","a","r","k","e","n","i","n","g">>,
        amazon_asin |-> <<"B","0","7","G","X","Z","Q","8","V","G">>,
        clickbank_id |-> <<>>,
        price_range |-> <<"$","2","5","-","3","5">>,
        description |-> (* Room darkening curtains for better baby sleep *)
            <<"R","o","o","m"," ","d","a","r","k","e","n","i","n","g"," ","c","u","r","t","a","i","n","s"," ","f","o","r"," ","b","e","t","t","e","r"," ","b","a","b","y"," ","s","l","e","e","p">>,
        keywords |-> <<
            (* blackout curtains *) <<"b","l","a","c","k","o","u","t"," ","c","u","r","t","a","i","n","s">>,
            (* room darkening *) <<"r","o","o","m"," ","d","a","r","k","e","n","i","n","g">>,
            (* sleep environment *) <<"s","l","e","e","p"," ","e","n","v","i","r","o","n","m","e","n","t">> >> ],
      [ name |-> (* Baby Shusher Sleep Miracle *)
            <<"B","a","b","y"," ","S","h","u","s","h","e","r"," ","S","l","e","e","p"," ","M","i","r","a","c","l","e">>,
        category |-> (* sound_machine *)
            <<"s","o","u","n","d","_","m","a","c","h","i","n","e">>,
        amazon_asin |-> <<"B","0","0","D","2","J","N","8","7","I">>,
        clickbank_id |-> <<>>,
        price_range |-> <<"$","3","5","-","4","5">>,
        description |-> (* Rhythmic shushing sound to soothe babies to sleep *)
            <<"R","h","y","t","h","m","i","c"," ","s","h","u","s","h","i","n","g"," ","s","o","u","n","d"," ","t","o"," ","s","o","o","t","h","e"," ","b","a","b","i","e","s"," ","t","o"," ","s","l","e","e","p">>,
        keywords |-> <<
            (* shusher *) <<"s","h","u","s","h","e","r">>,
            (* soothing sounds *) <<"s","o","o","t","h","i","n","g"," ","s","o","u","n","d","s">>,
            (* baby sleep aid *) <<"b","a","b","y"," ","s","l","e","e","p"," ","a","i","d">> >> ],
      [ name |-> (* Marpac Dohm White Noise Machine *)
            <<"M","a","r","p","a","c"," ","D","o","h","m"," ","W","h","i","t","e"," ","N","o","i","s","e"," ","M","a","c","h","i","n","e">>,
        category |-> (* sound_machine *)
            <<"s","o","u","n","d","_","m","a","c","h","i","n","e">>,
        amazon_asin |-> <<"B","0","0","0","K","U","H","F","G","M">>,
        clickbank_id |-> <<>>,
        price_range |-> <<"$","4","5","-","5","5">>,
        description |-> (* Natural white noise machine with adjustable tone *)
            <<"N","a","t","u","r","a","l"," ","w","h","i","t","e"," ","n","o","i","s","e"," ","m","a","c","h","i","n","e"," ","w","i","t","h"," ","a","d","j","u","s","t","a","b","l","e"," ","t","o","n","e">>,
        keywords |-> <<
            (* white noise machine *) <<"w","h","i","t","e"," ","n","o","i","s","e"," ","m","a","c","h","i","n","e">>,
            (* natural sound *) <<"n","a","t","u","r","a","l"," ","s","o","u","n","d">>,
            (* sleep machine *) <<"s","l","e","e","p"," ","m","a","c","h","i","n","e">> >> ]
    >>

----------------------------------------------------------------------------
(* Product Relevance Scorer *)

\* variant: every keyword found counts twice
keyword_hits_double(product, content_lower) ==
    2 * Cardinality({j \in 1..Len(product.keywords) :
                        str_in(lower(product.keywords[j]), content_lower)})

\* number of keywords of the product found in the lowered content
keyword_hits(product, content_lower) ==
    Cardinality({j \in 1..Len(product.keywords) :
                    str_in(lower(product.keywords[j]), content_lower)})

\* variant: the category counts like one keyword
category_bonus_as_keyword(product, content_lower) ==
    IF str_in(replace_underscore(product.category), content_lower) THEN 1 ELSE 0

\* the category bonus
category_bonus(product, content_lower) ==
    IF str_in(replace_underscore(product.category), content_lower) THEN 2 ELSE 0

\* value of the local relevance_score after the loop body for one product
relevance_score(product, content_lower) ==
    keyword_hits(product, content_lower) + category_bonus(product, content_lower)

\* the relevance_score of every catalog product for the content c
relevance_scores(ps, c) ==
    LET content_lower == lower(c)
    IN  [i \in 1..Len(ps) |-> relevance_score(ps[i], content_lower)]

\* variant: the products are not filtered by  relevance_score > 0
all_pairs(ps, c) ==
    LET sc == relevance_scores(ps, c)
    IN  [i \in 1..Len(ps) |-> <<i, sc[i]>>]

\* the list relevant_products before the sort: (catalog index, score) pairs
\* of the products with a positive score, in catalog order
positive_pairs(ps, c) ==
    LET sc == relevance_scores(ps, c)
    IN  SelectSeq([i \in 1..Len(ps) |-> <<i, sc[i]>>], LAMBDA x : x[2] > 0)

\* variant: an unstable sort, x goes before the elements of equal score
RECURSIVE insert_before_equal(_, _)
insert_before_equal(sorted, x) ==
    IF sorted = <<>> THEN <<x>>
    ELSE IF Head(sorted)[2] > x[2]
         THEN <<Head(sorted)>> \o insert_before_equal(Tail(sorted), x)
         ELSE <<x>> \o sorted

\* list.sort(key=score, reverse=True): stable, descending; x goes behind every
\* element whose score is not lower
RECURSIVE insert_sorted(_, _)
insert_sorted(sorted, x) ==
    IF sorted = <<>> THEN <<x>>
    ELSE IF Head(sorted)[2] >= x[2]
         THEN <<Head(sorted)>> \o insert_sorted(Tail(sorted), x)
         ELSE <<x>> \o sorted

RECURSIVE sort_by_score(_)
sort_by_score(pairs) ==
    IF pairs = <<>> THEN <<>>
    ELSE insert_sorted(sort_by_score(SubSeq(pairs, 1, Len(pairs) - 1)), pairs[Len(pairs)])

find_relevant_products(ps, c, maxp) ==
    LET sorted == sort_by_score(positive_pairs(ps, c))
        top == Prefix(sorted, maxp)
    IN  [i \in 1..Len(top) |-> top[i][1]]

----------------------------------------------------------------------------
(* Program constants *)

\* default of the max_products parameter
DefaultMaxProducts == 3

\* insertion_points[:2]
MaxInsertions == 2

----------------------------------------------------------------------------
(* Link generation *)

\* config['monetization']['amazon_associates']['associate_id'], an opaque value
amazon_associate_id == "{associate_id}"

\* config['monetization']['affiliate_programs'][0].get('clickbank_id', 'defaultid')
clickbank_affiliate_id == "{clickbank_id}"

\* the tid that generate_clickbank_link puts in place of an empty one
DefaultTid == <<"d","e","f","a","u","l","t">>

generate_amazon_link(asin, keyword) ==
    <<"https://www.amazon.com/dp/">> \o asin
        \o <<"?tag=", amazon_associate_id, "&linkCode=as2&camp=1789&creative=9325">>
        \o (IF keyword # <<>> THEN <<"&keywords=">> \o quote_plus(keyword) ELSE <<>>)

generate_clickbank_link(product_id, tid) ==
    <<"https://hop.clickbank.net/?affiliate=", clickbank_affiliate_id, "&vendor=">>
        \o product_id \o <<"&tid=">> \o (IF tid = <<>> THEN DefaultTid ELSE tid)

\* variant: the affiliate-network identifier is looked at first
affiliate_link_network_first(product) ==
    IF product.clickbank_id # <<>>
    THEN generate_clickbank_link(product.clickbank_id, <<>>)
    ELSE IF product.amazon_asin # <<>>
         THEN generate_amazon_link(product.amazon_asin, product.keywords[1])
         ELSE <<>>

\* the link insert_affiliate_links generates for a product; <<>> when the
\* product has neither identifier (the `continue` branch)
affiliate_link(product) ==
    IF product.amazon_asin # <<>>
    THEN generate_amazon_link(product.amazon_asin, product.keywords[1])
    ELSE IF product.clickbank_id # <<>>
         THEN generate_clickbank_link(product.clickbank_id, <<>>)
         ELSE <<>>

\* the three fixed chunks of the anchor template
AnchorOpen == "<a href=\""
AnchorAttrs == "\" target=\"_blank\" rel=\"noopener\">"
AnchorClose == "</a>"

\* f'<a href="{link}" target="_blank" rel="noopener">{text}</a>'
anchor(link, text) ==
    <<AnchorOpen>> \o link \o <<AnchorAttrs>> \o text \o <<AnchorClose>>

\* the local link_text of insert_affiliate_links
link_text(product) == anchor(affiliate_link(product), product.name)

----------------------------------------------------------------------------
(* Regular-expression matching of  \b<term>\b  with re.IGNORECASE *)

Min(S) == CHOOSE x \in S : \A y \in S : x <= y

IsWordAt(s, p) == p >= 1 /\ p <= Len(s) /\ s[p] \in WordChars

\* \b between element p-1 and element p
Boundary(s, p) == IsWordAt(s, p - 1) # IsWordAt(s, p)

MatchAt(s, term, i) ==
    /\ i >= 1
    /\ i + Len(term) - 1 <= Len(s)
    /\ \A j \in 1..Len(term) : lower_char(s[i + j - 1]) = lower_char(term[j])
    /\ Boundary(s, i)
    /\ Boundary(s, i + Len(term))

Matches(s, term) == {i \in 1..(Len(s) - Len(term) + 1) : MatchAt(s, term, i)}

\* re.finditer: the matches left to right, none overlapping the one before
RECURSIVE finditer(_, _, _)
finditer(M, n, from) ==
    LET C == {i \in M : i >= from}
    IN  IF C = {} THEN <<>>
        ELSE <<Min(C)>> \o finditer(M, n, Min(C) + n)

\* match.group() of every match of one keyword
keyword_groups(c, keyword) ==
    LET at == finditer(Matches(c, keyword), Len(keyword), 1)
    IN  [k \in 1..Len(at) |-> SubSeq(c, at[k], at[k] + Len(keyword) - 1)]

RECURSIVE all_groups(_, _, _)
all_groups(c, keywords, j) ==
    IF j > Len(keywords) THEN <<>>
    ELSE keyword_groups(c, keywords[j]) \o all_groups(c, keywords, j + 1)

find_insertion_points(c, product) == Prefix(all_groups(c, product.keywords, 1), MaxInsertions)

\* re.sub(pattern, replacement, content, count=1, flags=re.IGNORECASE)
insert_link_at_position(c, search_term, text) ==
    LET M == Matches(c, search_term)
    IN  IF M = {} THEN c
        ELSE SubSeq(c, 1, Min(M) - 1) \o text
                \o SubSeq(c, Min(M) + Len(search_term), Len(c))

----------------------------------------------------------------------------
(* Recommendation cards.  "[bulb]" and "[arrow]" stand for the two          *)
(* non-ASCII symbols of the template.                                       *)

\* the link and the platform label of one card; <<>> for the `continue` branch
card_link(product) ==
    IF product.amazon_asin # <<>>
    THEN generate_amazon_link(product.amazon_asin, <<>>)
    ELSE IF product.clickbank_id # <<>>
         THEN generate_clickbank_link(product.clickbank_id, <<>>)
         ELSE <<>>

card_platform(product) ==
    IF product.amazon_asin # <<>> THEN "Amazon" ELSE "Get Guide"

\* product_html, or nothing for a product with neither identifier
product_card(product) ==
    IF card_link(product) = <<>> THEN <<>>
    ELSE <<"\n        <div class=\"product-card\">\n            <h3>">>
            \o product.name
            \o <<"</h3>\n            <p class=\"price\">">>
            \o product.price_range
            \o <<"</p>", "\n            <p class=\"description\">">>
            \o product.description
            \o <<"</p>", "\n            <a href=\"">>
            \o card_link(product)
            \o <<"\" class=\"btn btn-affiliate\" target=\"_blank\" rel=\"noopener\">\n                View on ",
                 card_platform(product),
                 " [arrow]\n            </a>\n            <small class=\"affiliate-disclosure\">As an Amazon Associate, we earn from qualifying purchases.</small>\n        </div>\n">>

\* variant: the cards come in the reverse order of the list
RECURSIVE product_cards_reversed(_, _, _)
product_cards_reversed(ps, list, k) ==
    IF k > Len(list) THEN <<>>
    ELSE product_cards_reversed(ps, list, k + 1) \o product_card(ps[list[k]])

RECURSIVE product_cards(_, _, _)
product_cards(ps, list, k) ==
    IF k > Len(list) THEN <<>>
    ELSE product_card(ps[list[k]]) \o product_cards(ps, list, k + 1)

generate_recommendation_section(ps, list) ==
    <<"\n<div class=\"product-recommendations\">\n    ", "<h2>",
      "[bulb] Recommended Products to Help Your Baby Sleep Better", "</h2>",
      "\n    ", "<p>",
      "Based on the tips in this article, here are some products that many parents find helpful:",
      "</p>", "\n    <div class=\"product-grid\">\n">>
        \o product_cards(ps, list, 1)
        \o <<"\n    </div>\n</div>\n">>

----------------------------------------------------------------------------
(* len() of a text of characters and chunks *)

\* len(s)
RECURSIVE text_len(_)
text_len(s) ==
    IF s = <<>> THEN 0
    ELSE IF Len(s) = 1 THEN Len(s[1])
         ELSE LET half == Len(s) \div 2
              IN  text_len(SubSeq(s, 1, half))
                    + text_len(SubSeq(s, half + 1, Len(s)))

\* the two line breaks the rewriter puts between the content and a block
BlankLine == <<"\n", "\n">>

----------------------------------------------------------------------------
(* The templates of the email-capture block and of the ad unit.  "[gift]"   *)
(* and "[arrow]" stand for the two non-ASCII symbols of the email template; *)
(* its two phrases that are a catalog keyword are kept as characters.       *)

EmailOpen == "\n<div class=\"email-capture-box\">\n    <div class=\"email-capture-content\">\n        <h3>[gift] Get Your FREE Baby "
EmailTitleEnd == " Template</h3>\n        "
EmailForm == "\n        <form class=\"email-form\" action=\"/subscribe\" method=\"POST\">\n            <input type=\"email\" name=\"email\" placeholder=\"Your email address\" required>\n            <input type=\"hidden\" name=\"lead_magnet\" value=\"sleep_schedule_template\">\n            <button type=\"submit\" class=\"btn btn-primary\">Get My Free Template [arrow]</button>\n        </form>\n        <small>We respect your privacy. Unsubscribe anytime.</small>\n    </div>\n</div>\n"

SleepScheduleTitle == <<"S","l","e","e","p"," ","S","c","h","e","d","u","l","e">>
SleepSchedule == <<"s","l","e","e","p"," ","s","c","h","e","d","u","l","e">>

email_capture_html ==
    <<EmailOpen>> \o SleepScheduleTitle
        \o <<EmailTitleEnd, "<p>",
             "Join over 10,000 parents who've downloaded our proven ">>
        \o SleepSchedule
        \o <<" guide. Perfect for babies 0-12 months!", "</p>", EmailForm>>

AdOpen == "\n<div class=\"ad-container in-article-ad\">\n    <ins class=\"adsbygoogle\"\n         style=\"display:block; text-align:center;\"\n         data-ad-layout=\"in-article\"\n         data-ad-format=\"fluid\"\n         data-ad-client=\""
AdClose == "\"\n         data-ad-slot=\"1234567891\"></ins>\n    <script>\n         (adsbygoogle = window.adsbygoogle || []).push({});\n    </script>\n</div>\n"

\* f-string in_article_ad around the client id
in_article_ad(client_id) == <<AdOpen>> \o client_id \o <<AdClose>>

----------------------------------------------------------------------------
(* Line breaks *)

\* the chunks of the recommendation template that hold a line break
RecommendationBreaks ==
    { "\n<div class=\"product-recommendations\">\n    ",
      "\n    ",
      "\n    <div class=\"product-grid\">\n",
      "\n        <div class=\"product-card\">\n            <h3>",
      "</h3>\n            <p class=\"price\">",
      "\n            <p class=\"description\">",
      "\n            <a href=\"",
      "\" class=\"btn btn-affiliate\" target=\"_blank\" rel=\"noopener\">\n                View on ",
      " [arrow]\n            </a>\n            <small class=\"affiliate-disclosure\">As an Amazon Associate, we earn from qualifying purchases.</small>\n        </div>\n",
      "\n    </div>\n</div>\n" }

\* the chunks of the other two templates that hold a line break
TemplateBreaks == {EmailOpen, EmailTitleEnd, EmailForm, AdOpen, AdClose}

----------------------------------------------------------------------------
(* add_product_recommendations *)

\* max_products=3 of the call in add_product_recommendations
RecommendationMaxProducts == 3

\* the literal of conclusion_pattern
Conclusion == <<"c","o","n","c","l","u","s","i","o","n">>

\* a literal of a pattern compiled with re.IGNORECASE matches s at i
LiteralAt(s, term, i) ==
    /\ i >= 1
    /\ i + Len(term) - 1 <= Len(s)
    /\ \A j \in 1..Len(term) : lower_char(s[i + j - 1]) = lower_char(term[j])

\* an element  .  does not match (the pattern is compiled without re.DOTALL)
has_newline(e) == e = "\n" \/ e \in RecommendationBreaks \/ e \in TemplateBreaks

\* the end of the match of  <h2[^>]*>.*?conclusion.*?</h2>  that starts at
\* element i, or 0: the first </h2> behind a "conclusion" behind the <h2>,
\* all of it on one line
conclusion_match_end(s, i) ==
    IF s[i] # "<h2>" THEN 0
    ELSE LET Q == {q \in (i + 1)..Len(s) :
                      /\ s[q] = "</h2>"
                      /\ \A k \in (i + 1)..q : ~has_newline(s[k])
                      /\ \E p \in (i + 1)..q :
                            LiteralAt(s, Conclusion, p) /\ p + Len(Conclusion) <= q}
         IN  IF Q = {} THEN 0 ELSE Min(Q)

\* re.search(conclusion_pattern, content, re.IGNORECASE)
conclusion_found(s) == \E i \in 1..Len(s) : conclusion_match_end(s, i) # 0

\* re.sub(conclusion_pattern, repl + '\1', s[from:], flags=re.IGNORECASE):
\* every match, left to right, none overlapping the one before
RECURSIVE sub_conclusion(_, _, _)
sub_conclusion(s, from, repl) ==
    LET S == {i \in from..Len(s) : conclusion_match_end(s, i) # 0}
    IN  IF S = {} THEN SubSeq(s, from, Len(s))
        ELSE SubSeq(s, from, Min(S) - 1) \o repl
                \o SubSeq(s, Min(S), conclusion_match_end(s, Min(S)))
                \o sub_conclusion(s, conclusion_match_end(s, Min(S)) + 1, repl)

\* variant: without the early return for an empty product list
add_product_recommendations_always(ps, c) ==
    LET relevant == find_relevant_products(ps, c, RecommendationMaxProducts)
        html == generate_recommendation_section(ps, relevant)
    IN  IF conclusion_found(c)
        THEN sub_conclusion(c, 1, html \o BlankLine)
        ELSE c \o BlankLine \o html

add_product_recommendations(ps, c) ==
    LET relevant == find_relevant_products(ps, c, RecommendationMaxProducts)
        html == generate_recommendation_section(ps, relevant)
    IN  IF relevant = <<>> THEN c
        ELSE IF conclusion_found(c)
             THEN sub_conclusion(c, 1, html \o BlankLine)
             ELSE c \o BlankLine \o html

----------------------------------------------------------------------------
(* add_email_capture *)

\* the positions of an element in s behind position from
PositionsAfter(s, e, from) == {i \in (from + 1)..Len(s) : s[i] = e}

\* the end of the first match of  </h2>.*?<p>.*?</p>  (re.DOTALL), or 0: the
\* first </p> behind the first <p> behind the first </h2>
h2_match_end(s) ==
    LET H == PositionsAfter(s, "</h2>", 0)
    IN  IF H = {} THEN 0
        ELSE LET P == PositionsAfter(s, "<p>", Min(H))
             IN  IF P = {} THEN 0
                 ELSE LET Q == PositionsAfter(s, "</p>", Min(P))
                      IN  IF Q = {} THEN 0 ELSE Min(Q)

\* variant: the block goes in front of the match
add_email_capture_in_front(c) ==
    IF h2_match_end(c) # 0
    THEN LET h == Min(PositionsAfter(c, "</h2>", 0))
         IN  SubSeq(c, 1, h - 1) \o email_capture_html \o BlankLine
                \o SubSeq(c, h, Len(c))
    ELSE c

\* re.sub(h2_pattern, '\1' + '\n\n' + email_capture_html, content, count=1)
add_email_capture(c) ==
    IF h2_match_end(c) # 0
    THEN SubSeq(c, 1, h2_match_end(c)) \o BlankLine \o email_capture_html
            \o SubSeq(c, h2_match_end(c) + 1, Len(c))
    ELSE c

----------------------------------------------------------------------------
(* add_google_adsense_units *)

\* len(paragraphs) >= 3
AdMinSegments == 3

\* paragraphs.insert(2, ...)
AdInsertIndex == 2

\* str.split(sep) for a separator that is one element
RECURSIVE split(_, _)
split(s, sep) ==
    LET E == PositionsAfter(s, sep, 0)
    IN  IF E = {} THEN <<s>>
        ELSE <<SubSeq(s, 1, Min(E) - 1)>> \o split(SubSeq(s, Min(E) + 1, Len(s)), sep)

\* sep.join(parts)
RECURSIVE join(_, _)
join(sep, parts) ==
    IF parts = <<>> THEN <<>>
    ELSE IF Len(parts) = 1 THEN parts[1]
         ELSE parts[1] \o <<sep>> \o join(sep, Tail(parts))

\* list.insert(k, x) for k <= len(list)
list_insert(l, k, x) == SubSeq(l, 1, k) \o <<x>> \o SubSeq(l, k + 1, Len(l))

\* the keys add_google_adsense_units reads are there
adsense_keys_present(cfg) ==
    /\ "google_adsense" \in DOMAIN cfg.monetization
    /\ "enabled" \in DOMAIN cfg.monetization.google_adsense
    /\ cfg.monetization.google_adsense.enabled =>
          "client_id" \in DOMAIN cfg.monetization.google_adsense

\* variant: two segments are enough for the ad
add_google_adsense_units_from_two(cfg, c) ==
    IF ~cfg.monetization.google_adsense.enabled THEN c
    ELSE LET paragraphs == split(c, "</p>")
         IN  IF Len(paragraphs) >= AdInsertIndex
             THEN join("</p>", list_insert(paragraphs, AdInsertIndex,
                      in_article_ad(cfg.monetization.google_adsense.client_id) \o <<"</p>">>))
             ELSE c

\* add_google_adsense_units for a config with the keys it reads
add_google_adsense_units(cfg, c) ==
    IF ~cfg.monetization.google_adsense.enabled THEN c
    ELSE LET paragraphs == split(c, "</p>")
         IN  IF Len(paragraphs) >= AdMinSegments
             THEN join("</p>", list_insert(paragraphs, AdInsertIndex,
                      in_article_ad(cfg.monetization.google_adsense.client_id) \o <<"</p>">>))
             ELSE c

----------------------------------------------------------------------------
(* Inputs *)

\* longest content, in fragments
MaxFrags == 2

\* largest max_products argument tried
MaxProductsArg == 4

\* pieces the content strings are built from, each ending in a space: keyword
\* phrases of the catalog (some capitalised), two words that are no keyword
\* and a word that merely starts with a keyword
Fragments ==
    { (* white noise *) <<"w","h","i","t","e"," ","n","o","i","s","e"," ">>,
      (* machine *) <<"m","a","c","h","i","n","e"," ">>,
      (* Sound Machine *) <<"S","o","u","n","d"," ","M","a","c","h","i","n","e"," ">>,
      (* Sleep Environment *) <<"S","l","e","e","p"," ","E","n","v","i","r","o","n","m","e","n","t"," ">>,
      (* shusher *) <<"s","h","u","s","h","e","r"," ">>,
      (* swaddled *) <<"s","w","a","d","d","l","e","d"," ">>,
      (* sleep guide *) <<"s","l","e","e","p"," ","g","u","i","d","e"," ">>,
      (* noise *) <<"n","o","i","s","e"," ">> }

RECURSIVE Concat(_)
Concat(ss) == IF ss = <<>> THEN <<>> ELSE Head(ss) \o Concat(Tail(ss))

Contents == UNION {{Concat(f) : f \in [1..n -> Fragments]} : n \in 0..MaxFrags}

\* an ASIN for the catalog variant in which product 2 carries both identifiers
OtherAsin == <<"B","0","0","0","0","0","0","0","0","2">>

\* the product table with the identifiers of one product replaced
WithIds(ps, i, asin, cbid) ==
    [ps EXCEPT ![i] = [@ EXCEPT !.amazon_asin = asin, !.clickbank_id = cbid]]

\* the catalogs tried: the table of load_affiliate_products, and the same table
\* with product 2 (the one affiliate-network product) carrying both
\* identifiers or none
Catalogs ==
    { load_affiliate_products,
      WithIds(load_affiliate_products, 2, OtherAsin, load_affiliate_products[2].clickbank_id),
      WithIds(load_affiliate_products, 2, <<>>, <<>>) }

\* the configurations tried.  FullConfig has every key the class reads;
\* the others lack a key or hold another value.  All of them have the
\* affiliate_programs entry generate_clickbank_link reads.
AdClientId == <<"{client_id}">>

Associates == [associate_id |-> amazon_associate_id]

Programs == << [clickbank_id |-> clickbank_affiliate_id] >>

FullConfig ==
    [monetization |->
        [amazon_associates |-> Associates,
         affiliate_programs |-> Programs,
         google_adsense |-> [enabled |-> TRUE, client_id |-> AdClientId]]]

Configs ==
    { FullConfig,
      (* ads switched off *)
      [monetization |->
          [amazon_associates |-> Associates,
           affiliate_programs |-> Programs,
           google_adsense |-> [enabled |-> FALSE, client_id |-> AdClientId]]],
      (* an empty client id *)
      [monetization |->
          [amazon_associates |-> Associates,
           affiliate_programs |-> Programs,
           google_adsense |-> [enabled |-> TRUE, client_id |-> <<>>]]],
      (* no client id *)
      [monetization |->
          [amazon_associates |-> Associates,
           affiliate_programs |-> Programs,
           google_adsense |-> [enabled |-> TRUE]]],
      (* no google_adsense section *)
      [monetization |->
          [amazon_associates |-> Associates,
           affiliate_programs |-> Programs]],
      (* no associate id *)
      [monetization |->
          [amazon_associates |-> [tracking |-> TRUE],
           affiliate_programs |-> Programs,
           google_adsense |-> [enabled |-> TRUE, client_id |-> AdClientId]]] }

\* longest page, in blocks
MaxBlocks == 2

\* most calls of the block operations in a row
MaxCalls == 2

\* an image tag whose alt text is a keyword of a product ("The Happy Sleeper
\* Book") whose name holds no keyword
ImgTag ==
    <<"<img src=\"nursery.jpg\" alt=\"">> \o <<"G","e","n","t","l","e"," ","m","e","t","h","o","d","s">> \o <<"\">">>

\* pieces the HTML pages are built from: two headings, three paragraphs (one
\* with a keyword, one with the word "conclusion", one without its opening
\* tag that names three products, two of them by overlapping phrases) and a
\* line with an image
Blocks ==
    { (* <h2>Sleep Environment</h2> *)
      <<"<h2>">> \o <<"S","l","e","e","p"," ","E","n","v","i","r","o","n","m","e","n","t">> \o <<"</h2>">>,
      (* <p>A white noise machine helps.</p> *)
      <<"<p>">> \o <<"A"," ","w","h","i","t","e"," ","n","o","i","s","e"," ","m","a","c","h","i","n","e"," ","h","e","l","p","s",".">> \o <<"</p>">>,
      (* <h2>Conclusion</h2> *)
      <<"<h2>">> \o <<"C","o","n","c","l","u","s","i","o","n">> \o <<"</h2>">>,
      (* <p>In conclusion, rest.</p> *)
      <<"<p>">> \o <<"I","n"," ","c","o","n","c","l","u","s","i","o","n",","," ","r","e","s","t",".">> \o <<"</p>">>,
      (* A safe sleep sack and a sleep training book.</p> *)
      <<"A"," ","s","a","f","e"," ","s","l","e","e","p"," ","s","a","c","k"," ","a","n","d"," ","a"," ","s","l","e","e","p"," ","t","r","a","i","n","i","n","g"," ","b","o","o","k",".">>
          \o <<"</p>">>,
      (* <img src="nursery.jpg" alt="Gentle methods"> and a line break *)
      ImgTag \o <<"\n">> }

Pages == UNION {{Concat(f) : f \in [1..n -> Blocks]} : n \in 0..MaxBlocks}

\* the report process_content starts with
EmptyReport ==
    [affiliate_links |-> <<>>, email_captures |-> 0, ad_units |-> 0,
     product_recommendations |-> 0]

----------------------------------------------------------------------------
(* The state machine *)

\* no orchestrator is running: the manager is driven directly
NoOrchestrator ==
    /\ mode = "none"
    /\ opc = "none"
    /\ gpc = "idle"
    /\ posts_dir = <<>>
    /\ generated_files = <<>>
    /\ file_i = 0
    /\ processed_posts = <<>>
    /\ social_results = [ bound |-> FALSE, medium |-> <<>> ]
    /\ medium_enabled = FALSE
    /\ daily_report = <<>>
    /\ log = <<>>
    /\ raised = "none"
    /\ polls = 0

Init ==
    /\ products \in Catalogs
    /\ input_content \in Contents
    /\ content = input_content
    /\ pc = "idle"
    /\ max_products = DefaultMaxProducts
    /\ scores = <<>>
    /\ scored = <<>>
    /\ relevant_products = <<>>
    /\ prod_i = 0
    /\ insertion_points = <<>>
    /\ point_i = 0
    /\ inserted_links = <<>>
    /\ recommendation_html = <<>>
    /\ config = FullConfig
    /\ caller = "none"
    /\ monetization_report = EmptyReport
    /\ linked_content = <<>>
    /\ step_input = <<>>
    /\ call_log = <<>>
    /\ error = "none"
    /\ NoOrchestrator

\* variant: the call sorts self.products itself by relevance
FindRelevantProductsSortingCatalog ==
    /\ pc \in {"idle", "scored"}
    /\ \E maxp \in 0..MaxProductsArg :
          /\ max_products' = maxp
          /\ scores' = relevance_scores(products, content)
          /\ scored' = find_relevant_products(products, content, maxp)
    /\ products' = LET order == sort_by_score(all_pairs(products, content))
                   IN  [k \in 1..Len(products) |-> products[order[k][1]]]
    /\ pc' = "scored"
    /\ UNCHANGED << input_content, content, relevant_products, prod_i,
                    insertion_points, point_i, inserted_links, recommendation_html >>

\* a call find_relevant_products(content, maxp)
FindRelevantProducts ==
    /\ pc \in {"idle", "scored"}
    /\ \E maxp \in 0..MaxProductsArg :
          /\ max_products' = maxp
          /\ scores' = relevance_scores(products, content)
          /\ scored' = find_relevant_products(products, content, maxp)
    /\ pc' = "scored"
    /\ UNCHANGED << products, input_content, content, relevant_products, prod_i,
                    insertion_points, point_i, inserted_links, recommendation_html >>

\* a call generate_recommendation_section(find_relevant_products(content, 3))
GenerateRecommendationSection ==
    /\ pc = "idle"
    /\ relevant_products' = find_relevant_products(products, content, DefaultMaxProducts)
    /\ recommendation_html' = generate_recommendation_section(products, relevant_products')
    /\ pc' = "rendered"
    /\ UNCHANGED << products, input_content, content, max_products, scores, scored,
                    prod_i, insertion_points, point_i, inserted_links >>

\* insert_affiliate_links(content): entry, up to the outer loop
InsertAffiliateLinks ==
    /\ pc = "idle"
    /\ relevant_products' = find_relevant_products(products, content, DefaultMaxProducts)
    /\ inserted_links' = <<>>
    /\ prod_i' = 1
    /\ pc' = "for_product"
    /\ UNCHANGED << products, input_content, content, max_products, scores, scored,
                    insertion_points, point_i, recommendation_html >>

\* head of the outer loop: the next product's insertion points, or the return
ForProduct ==
    /\ pc = "for_product"
    /\ IF prod_i > Len(relevant_products)
       THEN /\ pc' = "returned"
            /\ UNCHANGED << insertion_points, point_i >>
       ELSE /\ insertion_points' =
                  find_insertion_points(content, products[relevant_products[prod_i]])
            /\ point_i' = 1
            /\ pc' = "for_point"
    /\ UNCHANGED << products, input_content, content, max_products, scores, scored,
                    relevant_products, prod_i, inserted_links, recommendation_html >>

\* one pass of the inner loop body, or the end of the inner loop
ForPoint ==
    /\ pc = "for_point"
    /\ LET product == products[relevant_products[prod_i]]
           link == affiliate_link(product)
       IN  IF point_i > Len(insertion_points)
           THEN /\ prod_i' = prod_i + 1
                /\ pc' = "for_product"
                /\ UNCHANGED << content, point_i, inserted_links >>
           ELSE /\ point_i' = point_i + 1
                /\ pc' = "for_point"
                /\ prod_i' = prod_i
                /\ IF link = <<>>
                   THEN UNCHANGED << content, inserted_links >>
                   ELSE /\ content' = insert_link_at_position(
                                         content, insertion_points[point_i], link_text(product))
                        /\ inserted_links' = Append(inserted_links,
                              [product |-> product.name,
                               category |-> product.category,
                               link |-> link,
                               position |-> insertion_points[point_i]])
    /\ UNCHANGED << products, input_content, max_products, scores, scored,
                    relevant_products, insertion_points, recommendation_html >>

Next ==
    \/ FindRelevantProducts /\ UNCHANGED << pvars, ovars >>
    \/ GenerateRecommendationSection /\ UNCHANGED << pvars, ovars >>
    \/ InsertAffiliateLinks /\ UNCHANGED << pvars, ovars >>
    \/ ForProduct /\ UNCHANGED << pvars, ovars >>
    \/ ForPoint /\ UNCHANGED << pvars, ovars >>

Spec == Init /\ [][Next]_vars

----------------------------------------------------------------------------
(* Properties of the scorer *)

\* the keywords of a product that occur in c the way the scorer looks for
\* them: as a substring of the lowered content
KeywordsIn(product, c) ==
    LET lc == lower(c)
    IN  {j \in 1..Len(product.keywords) : str_in(lower(product.keywords[j]), lc)}

\* the category phrase of a product occurs in the lowered content
CategoryIn(product, c) ==
    str_in(replace_underscore(product.category), lower(c))

KeywordOccurs(ps, c) == \E i \in 1..Len(ps) : KeywordsIn(ps[i], c) # {}

\* C1: when no keyword of any catalog product occurs in the content, the
\* scorer returns the empty list and insert_affiliate_links returns the
\* content unchanged with an empty link list.
C1_NoKeywordNoChange ==
    ~KeywordOccurs(products, input_content) =>
        /\ pc = "scored" => scored = <<>>
        /\ pc \in {"for_product", "for_point", "returned"} =>
              /\ relevant_products = <<>>
              /\ content = input_content
              /\ inserted_links = <<>>

C1_Witness ==
    /\ pc = "returned"
    /\ input_content # <<>>
    /\ ~KeywordOccurs(products, input_content)

\* the keywords of a product that match c as  \b<keyword>\b , ignoring case
KeywordsMatching(product, c) ==
    {j \in 1..Len(product.keywords) : Matches(c, product.keywords[j]) # {}}

\* C2: the relevance score of every product is the number of its keywords
\* with a case-insensitive word-boundary match in the content, plus 2 if its
\* category phrase appears in the content.
C2_ScoreCountsWordMatches ==
    pc = "scored" =>
        \A i \in 1..Len(products) :
            scores[i] = Cardinality(KeywordsMatching(products[i], content))
                            + (IF CategoryIn(products[i], content) THEN 2 ELSE 0)

\* C3: the scorer returns the first max_products entries of the products of
\* positive score in descending score order, equal scores in catalog order:
\* no returned product has score 0, the list is as long as the cap allows,
\* and every product left out ranks behind every product returned.
Before(i, j) == scores[i] > scores[j] \/ (scores[i] = scores[j] /\ i < j)

Positive == {i \in 1..Len(products) : scores[i] > 0}

C3_TopRanked ==
    pc = "scored" =>
        LET R == {scored[k] : k \in 1..Len(scored)}
        IN  /\ R \subseteq Positive
            /\ Cardinality(R) = Len(scored)
            /\ Len(scored) = IF max_products < Cardinality(Positive)
                             THEN max_products ELSE Cardinality(Positive)
            /\ \A k \in 1..(Len(scored) - 1) : Before(scored[k], scored[k + 1])
            /\ \A j \in Positive \ R : \A r \in R : Before(r, j)

\* a call that cut the list, returned a tie and returned products out of
\* catalog order
C3_Witness ==
    /\ pc = "scored"
    /\ Len(scored) >= 2
    /\ Cardinality(Positive) > max_products
    /\ \E k \in 1..(Len(scored) - 1) : scores[scored[k]] = scores[scored[k + 1]]

C3_WitnessReordered ==
    /\ pc = "scored"
    /\ \E k \in 1..(Len(scored) - 1) : scored[k] > scored[k + 1]

\* C4: a content that contains a product's category phrase and none of its
\* keywords gives that product the score 2.
C4_CategoryOnlyScoresTwo ==
    pc = "scored" =>
        \A i \in 1..Len(products) :
            (CategoryIn(products[i], content) /\ KeywordsIn(products[i], content) = {})
                => scores[i] = 2

C4_Witness ==
    /\ pc = "scored"
    /\ \E i \in 1..Len(products) :
          CategoryIn(products[i], content) /\ KeywordsIn(products[i], content) = {}

\* C5 as stated: a content with exactly two distinct keywords of a product
\* gives that product the score 2, whether or not its category phrase is
\* in the content.
C5_TwoKeywordsScoreTwo ==
    pc = "scored" =>
        \A i \in 1..Len(products) :
            Cardinality(KeywordsIn(products[i], content)) = 2 => scores[i] = 2

\* C5 amended: with exactly two distinct keywords of a product in the
\* content, the product scores 2 when its category phrase is not in the
\* content and 4 when it is.
C5_TwoKeywordsPlusCategory ==
    pc = "scored" =>
        \A i \in 1..Len(products) :
            Cardinality(KeywordsIn(products[i], content)) = 2 =>
                scores[i] = IF CategoryIn(products[i], content) THEN 4 ELSE 2

C5_Witness ==
    /\ pc = "scored"
    /\ \E i \in 1..Len(products) :
          /\ Cardinality(KeywordsIn(products[i], content)) = 2
          /\ CategoryIn(products[i], content)
          /\ scores[i] = 4

C5_WitnessNoCategory ==
    /\ pc = "scored"
    /\ \E i \in 1..Len(products) :
          /\ Cardinality(KeywordsIn(products[i], content)) = 2
          /\ ~CategoryIn(products[i], content)

\* C6: a call of find_relevant_products changes neither the catalog nor the
\* content string, and a second call with the same arguments returns the
\* list the first call returned.
C6_ScorerPure ==
    [][pc' = "scored" =>
          /\ products' = products
          /\ content' = content
          /\ input_content' = input_content
          /\ (pc = "scored" /\ max_products' = max_products) => scored' = scored
          /\ scored' = find_relevant_products(products', content', max_products')]_vars

C6_Witness ==
    /\ pc = "scored"
    /\ Len(scored) = 3
    /\ scored[1] > scored[2]

----------------------------------------------------------------------------
(* Properties of the link insertion *)

\* the step is a pass of the inner loop body that substitutes
Substituting ==
    /\ pc = "for_point"
    /\ point_i <= Len(insertion_points)
    /\ affiliate_link(products[relevant_products[prod_i]]) # <<>>

\* C7: every substitution replaces the first occurrence of the matched
\* keyword with an anchor whose visible text is the matched text itself and
\* whose href is the generated affiliate URL.
C7_AnchorWrapsMatchedText ==
    [][(Substituting /\ Matches(content, insertion_points[point_i]) # {}) =>
          LET term == insertion_points[point_i]
              m == Min(Matches(content, term))
              matched == SubSeq(content, m, m + Len(term) - 1)
              link == affiliate_link(products[relevant_products[prod_i]])
          IN  content' = SubSeq(content, 1, m - 1) \o anchor(link, matched)
                            \o SubSeq(content, m + Len(term), Len(content))]_vars

\* C8: when insert_affiliate_links has returned, every ranked product that
\* has an identifier and a keyword phrase in the content is cited by at least
\* one entry of the returned link list.
C8_RankedProductIsCited ==
    pc = "returned" =>
        \A k \in 1..Len(relevant_products) :
            LET product == products[relevant_products[k]]
            IN  (/\ product.amazon_asin # <<>> \/ product.clickbank_id # <<>>
                 /\ KeywordsMatching(product, input_content) # {})
                    => \E e \in 1..Len(inserted_links) :
                          inserted_links[e].product = product.name

\* the last anchor chunk before position i, or "" when there is none
LastAnchorChunk(c, i) ==
    LET S == {k \in 1..i : c[k] \in {AnchorOpen, AnchorAttrs, AnchorClose}}
    IN  IF S = {} THEN ""
        ELSE c[CHOOSE k \in S : \A j \in S : j <= k]

\* C9: no inserted anchor lies inside the attributes or the text of another
\* inserted anchor: every anchor opens outside of any anchor.
C9_NoAnchorInsideAnchor ==
    \A i \in 1..Len(content) :
        content[i] = AnchorOpen => LastAnchorChunk(content, i - 1) \in {"", AnchorClose}

\* C10: the link of every entry follows the identifiers of its product (the
\* marketplace link when the product has a marketplace SKU, else the network
\* hop-link with tid "default"), and a product with neither identifier gets
\* no entry, no anchor and no recommendation card.
ProductNamed(n) == CHOOSE i \in 1..Len(products) : products[i].name = n

IsMarketplaceLink(link, product) ==
    /\ link[1] = "https://www.amazon.com/dp/"
    /\ SubSeq(link, 2, 1 + Len(product.amazon_asin)) = product.amazon_asin
    /\ link[2 + Len(product.amazon_asin)] = "?tag="

IsHopLink(link, product) ==
    /\ link[1] = "https://hop.clickbank.net/?affiliate="
    /\ SubSeq(link, 4, 3 + Len(product.clickbank_id)) = product.clickbank_id
    /\ SubSeq(link, 4 + Len(product.clickbank_id), Len(link))
          = <<"&tid=", "d", "e", "f", "a", "u", "l", "t">>

HasNoIdentifier(product) == product.amazon_asin = <<>> /\ product.clickbank_id = <<>>

C10_LinkFollowsIdentifier ==
    /\ \A e \in 1..Len(inserted_links) :
          LET product == products[ProductNamed(inserted_links[e].product)]
              link == inserted_links[e].link
          IN  IF product.amazon_asin # <<>> THEN IsMarketplaceLink(link, product)
              ELSE product.clickbank_id # <<>> /\ IsHopLink(link, product)
    /\ \A i \in 1..Len(products) :
          HasNoIdentifier(products[i]) =>
              /\ ~str_in(<<AnchorAttrs>> \o products[i].name, content)
              /\ ~str_in(products[i].name, recommendation_html)
    /\ pc = "rendered" =>
          \A k \in 1..Len(relevant_products) :
              LET product == products[relevant_products[k]]
              IN  \/ HasNoIdentifier(product)
                  \/ str_in(product.name \o <<"</h3>\n            <p class=\"price\">">>,
                            recommendation_html)
                       /\ str_in(card_link(product), recommendation_html)
                       /\ IF product.amazon_asin # <<>>
                          THEN IsMarketplaceLink(card_link(product), product)
                          ELSE IsHopLink(card_link(product), product)

\* link insertion has returned for a content with a keyword phrase of a ranked
\* product without identifier, next to a linked product
C10_Witness ==
    /\ pc = "returned"
    /\ inserted_links # <<>>
    /\ \E k \in 1..Len(relevant_products) :
          /\ HasNoIdentifier(products[relevant_products[k]])
          /\ KeywordsMatching(products[relevant_products[k]], input_content) # {}

C10_WitnessBoth ==
    /\ pc = "returned"
    /\ \E e \in 1..Len(inserted_links) :
          LET product == products[ProductNamed(inserted_links[e].product)]
          IN  product.amazon_asin # <<>> /\ product.clickbank_id # <<>>

----------------------------------------------------------------------------
(* Construction, process_content and calls of the block operations *)

\* the key __init__ reads is there
associate_id_present(cfg) ==
    /\ "amazon_associates" \in DOMAIN cfg.monetization
    /\ "associate_id" \in DOMAIN cfg.monetization.amazon_associates

\* variant: the flag is also set when the length stayed the same
length_flag_not_shorter(before, after, flag) ==
    IF text_len(after) >= text_len(before) THEN 1 ELSE flag

\* if len(content) > original_length: monetization_report[...] = 1
length_flag(before, after, flag) ==
    IF text_len(after) > text_len(before) THEN 1 ELSE flag

PInit ==
    /\ products = <<>>
    /\ input_content \in Pages
    /\ content = input_content
    /\ pc = "new"
    /\ max_products = DefaultMaxProducts
    /\ scores = <<>>
    /\ scored = <<>>
    /\ relevant_products = <<>>
    /\ prod_i = 0
    /\ insertion_points = <<>>
    /\ point_i = 0
    /\ inserted_links = <<>>
    /\ recommendation_html = <<>>
    /\ config \in Configs
    /\ caller = "none"
    /\ monetization_report = EmptyReport
    /\ linked_content = <<>>
    /\ step_input = <<>>
    /\ call_log = <<>>
    /\ error = "none"
    /\ NoOrchestrator

\* AffiliateManager(config_path), behind load_config
Construct ==
    /\ pc = "new"
    /\ products' = load_affiliate_products
    /\ IF associate_id_present(config)
       THEN pc' = "idle" /\ error' = error
       ELSE pc' = "raised" /\ error' = "KeyError"
    /\ UNCHANGED << input_content, content, max_products, scores, scored,
                    relevant_products, prod_i, insertion_points, point_i,
                    inserted_links, recommendation_html, config, caller,
                    monetization_report, linked_content, step_input, call_log >>

\* process_content(content): entry, into insert_affiliate_links
ProcessContent ==
    /\ call_log = <<>>
    /\ InsertAffiliateLinks
    /\ caller' = "process_content"
    /\ monetization_report' = EmptyReport
    /\ step_input' = content
    /\ call_log' = <<"insert_affiliate_links">>
    /\ UNCHANGED << config, linked_content, error >>

\* variant: the recommendation step works on the content as it came in
ProcessRecommendationsOfInput ==
    /\ pc = "returned"
    /\ caller = "process_content"
    /\ linked_content' = content
    /\ step_input' = content
    /\ content' = add_product_recommendations(products, input_content)
    /\ monetization_report' =
          [monetization_report EXCEPT
              !.affiliate_links = inserted_links,
              !.product_recommendations = length_flag(content, content', @)]
    /\ call_log' = Append(call_log, "add_product_recommendations")
    /\ pc' = "email_capture"
    /\ UNCHANGED << products, input_content, max_products, scores, scored,
                    relevant_products, prod_i, insertion_points, point_i,
                    inserted_links, recommendation_html, config, caller, error >>

\* variant: the recommendation flag is set whenever a link was reported
ProcessRecommendationsFlagFromLinks ==
    /\ pc = "returned"
    /\ caller = "process_content"
    /\ linked_content' = content
    /\ step_input' = content
    /\ content' = add_product_recommendations(products, content)
    /\ monetization_report' =
          [monetization_report EXCEPT
              !.affiliate_links = inserted_links,
              !.product_recommendations = IF inserted_links # <<>> THEN 1 ELSE @]
    /\ call_log' = Append(call_log, "add_product_recommendations")
    /\ pc' = "email_capture"
    /\ UNCHANGED << products, input_content, max_products, scores, scored,
                    relevant_products, prod_i, insertion_points, point_i,
                    inserted_links, recommendation_html, config, caller, error >>

\* process_content: insert_affiliate_links has returned; the report takes
\* its list and the recommendation step runs
ProcessRecommendations ==
    /\ pc = "returned"
    /\ caller = "process_content"
    /\ linked_content' = content
    /\ step_input' = content
    /\ content' = add_product_recommendations(products, content)
    /\ monetization_report' =
          [monetization_report EXCEPT
              !.affiliate_links = inserted_links,
              !.product_recommendations = length_flag(content, content', @)]
    /\ call_log' = Append(call_log, "add_product_recommendations")
    /\ pc' = "email_capture"
    /\ UNCHANGED << products, input_content, max_products, scores, scored,
                    relevant_products, prod_i, insertion_points, point_i,
                    inserted_links, recommendation_html, config, caller, error >>

\* process_content: the email-capture step
ProcessEmailCapture ==
    /\ pc = "email_capture"
    /\ step_input' = content
    /\ content' = add_email_capture(content)
    /\ monetization_report' =
          [monetization_report EXCEPT
              !.email_captures = length_flag(content, content', @)]
    /\ call_log' = Append(call_log, "add_email_capture")
    /\ pc' = "adsense_units"
    /\ UNCHANGED << products, input_content, max_products, scores, scored,
                    relevant_products, prod_i, insertion_points, point_i,
                    inserted_links, recommendation_html, config, caller,
                    linked_content, error >>

\* process_content: the ad step and the return; a key add_google_adsense_units
\* does not find raises out of process_content
ProcessAdsenseUnits ==
    /\ pc = "adsense_units"
    /\ step_input' = content
    /\ call_log' = Append(call_log, "add_google_adsense_units")
    /\ IF adsense_keys_present(config)
       THEN /\ content' = add_google_adsense_units(config, content)
            /\ monetization_report' =
                  [monetization_report EXCEPT
                      !.ad_units = length_flag(content, content', @)]
            /\ pc' = "processed"
            /\ error' = error
       ELSE /\ pc' = "raised"
            /\ error' = "KeyError"
            /\ UNCHANGED << content, monetization_report >>
    /\ UNCHANGED << products, input_content, max_products, scores, scored,
                    relevant_products, prod_i, insertion_points, point_i,
                    inserted_links, recommendation_html, config, caller,
                    linked_content >>

\* a call add_product_recommendations(content) on the result of the calls before
AddProductRecommendations ==
    /\ pc = "idle"
    /\ Len(call_log) < MaxCalls
    /\ step_input' = content
    /\ content' = add_product_recommendations(products, content)
    /\ call_log' = Append(call_log, "add_product_recommendations")
    /\ UNCHANGED << products, input_content, pc, max_products, scores, scored,
                    relevant_products, prod_i, insertion_points, point_i,
                    inserted_links, recommendation_html, config, caller,
                    monetization_report, linked_content, error >>

\* a call add_email_capture(content) on the result of the calls before
AddEmailCapture ==
    /\ pc = "idle"
    /\ Len(call_log) < MaxCalls
    /\ step_input' = content
    /\ content' = add_email_capture(content)
    /\ call_log' = Append(call_log, "add_email_capture")
    /\ UNCHANGED << products, input_content, pc, max_products, scores, scored,
                    relevant_products, prod_i, insertion_points, point_i,
                    inserted_links, recommendation_html, config, caller,
                    monetization_report, linked_content, error >>

\* a call add_google_adsense_units(content) on the result of the calls before
AddGoogleAdsenseUnits ==
    /\ pc = "idle"
    /\ Len(call_log) < MaxCalls
    /\ step_input' = content
    /\ call_log' = Append(call_log, "add_google_adsense_units")
    /\ IF adsense_keys_present(config)
       THEN /\ content' = add_google_adsense_units(config, content)
            /\ UNCHANGED << pc, error >>
       ELSE /\ pc' = "raised"
            /\ error' = "KeyError"
            /\ content' = content
    /\ UNCHANGED << products, input_content, max_products, scores, scored,
                    relevant_products, prod_i, insertion_points, point_i,
                    inserted_links, recommendation_html, config, caller,
                    monetization_report, linked_content >>

PNext ==
    \/ Construct /\ UNCHANGED ovars
    \/ ProcessContent /\ UNCHANGED ovars
    \/ ForProduct /\ UNCHANGED << pvars, ovars >>
    \/ ForPoint /\ UNCHANGED << pvars, ovars >>
    \/ ProcessRecommendations /\ UNCHANGED ovars
    \/ ProcessEmailCapture /\ UNCHANGED ovars
    \/ ProcessAdsenseUnits /\ UNCHANGED ovars
    \/ AddProductRecommendations /\ UNCHANGED ovars
    \/ AddEmailCapture /\ UNCHANGED ovars
    \/ AddGoogleAdsenseUnits /\ UNCHANGED ovars

ProcSpec == PInit /\ [][PNext]_vars

----------------------------------------------------------------------------
(* Properties of process_content and of the block operations *)

ProcessOrder ==
    << "insert_affiliate_links", "add_product_recommendations",
       "add_email_capture", "add_google_adsense_units" >>

\* C11: process_content calls link insertion, recommendation block, email
\* capture and ad unit in this order, each on the output of the one before:
\* the content it returns is add_google_adsense_units(add_email_capture(
\* add_product_recommendations(c1))) for the content c1 that
\* insert_affiliate_links returned, and the affiliate_links of its report is
\* the list that call returned.
C11_PipelineOrder ==
    /\ pc = "email_capture" =>
          content = add_product_recommendations(products, linked_content)
    /\ pc = "adsense_units" =>
          content = add_email_capture(
                        add_product_recommendations(products, linked_content))
    /\ pc = "processed" =>
          /\ content = add_google_adsense_units(config,
                          add_email_capture(
                              add_product_recommendations(products, linked_content)))
          /\ monetization_report.affiliate_links = inserted_links
          /\ call_log = ProcessOrder

\* a run of process_content in which each of the four operations changed
\* the content
C11_Witness ==
    /\ pc = "processed"
    /\ inserted_links # <<>>
    /\ linked_content # input_content
    /\ monetization_report.product_recommendations = 1
    /\ monetization_report.email_captures = 1
    /\ monetization_report.ad_units = 1

\* the three contents process_content passes on after the link insertion
AfterRecommendations == add_product_recommendations(products, linked_content)
AfterEmailCapture == add_email_capture(AfterRecommendations)
AfterAdsenseUnits == add_google_adsense_units(config, AfterEmailCapture)

\* a step either returns its input or a longer string
GrowsOrSame(before, after) ==
    after # before => text_len(after) > text_len(before)

\* C12: in the report process_content returns, product_recommendations,
\* email_captures and ad_units are each 0 or 1, and 1 exactly when the output
\* of the step differs from its input; no step changes the content without
\* making it longer.
C12_FlagsTellInsertions ==
    pc = "processed" =>
        /\ monetization_report.product_recommendations \in {0, 1}
        /\ monetization_report.email_captures \in {0, 1}
        /\ monetization_report.ad_units \in {0, 1}
        /\ monetization_report.product_recommendations = 1
              <=> AfterRecommendations # linked_content
        /\ monetization_report.email_captures = 1
              <=> AfterEmailCapture # AfterRecommendations
        /\ monetization_report.ad_units = 1
              <=> AfterAdsenseUnits # AfterEmailCapture
        /\ GrowsOrSame(linked_content, AfterRecommendations)
        /\ GrowsOrSame(AfterRecommendations, AfterEmailCapture)
        /\ GrowsOrSame(AfterEmailCapture, AfterAdsenseUnits)
        /\ content = AfterAdsenseUnits

\* a run in which one step inserted its block and another returned its input
C12_Witness ==
    /\ pc = "processed"
    /\ monetization_report.product_recommendations = 0
    /\ step_input # content
    /\ monetization_report.ad_units = 1

\* the operation called last
LastCall == IF call_log = <<>> THEN "none" ELSE call_log[Len(call_log)]

\* the number of '</p>' in a content
ParagraphEnds(c) == Cardinality(PositionsAfter(c, "</p>", 0))

AdsOn(cfg) ==
    /\ adsense_keys_present(cfg)
    /\ cfg.monetization.google_adsense.enabled

\* C13: for a content with at most one '</p>' (fewer than 3 segments when
\* split on it) add_google_adsense_units returns the content unchanged,
\* whatever the configuration, and process_content reports ad_units = 0.
C13_FewSegmentsNoAd ==
    (/\ LastCall = "add_google_adsense_units"
     /\ error = "none"
     /\ ParagraphEnds(step_input) <= 1)
        => /\ content = step_input
           /\ pc = "processed" => monetization_report.ad_units = 0

\* process_content with ads enabled and a client id reached the ad step with
\* a content of one paragraph
C13_Witness ==
    /\ pc = "processed"
    /\ AdsOn(config)
    /\ config.monetization.google_adsense.client_id # <<>>
    /\ ParagraphEnds(step_input) = 1

\* the last two calls were both calls of op, the second on the result of
\* the first
CalledTwice(op) ==
    /\ Len(call_log) >= 2
    /\ call_log[Len(call_log)] = op
    /\ call_log[Len(call_log) - 1] = op
    /\ error = "none"

\* C14: add_email_capture is idempotent: applied to its own output it
\* returns that output, with no second lead-magnet block.
C14_EmailCaptureIdempotent ==
    CalledTwice("add_email_capture") => content = step_input

\* the number of ad-unit snippets in a content
AdUnits(c) == Cardinality(PositionsAfter(c, AdOpen, 0))

\* C15: add_google_adsense_units is idempotent with ads enabled: applied to
\* its own output it inserts no second ad unit, so the output of two
\* applications holds as many ad units as the output of one.
C15_AdsenseUnitsIdempotent ==
    (CalledTwice("add_google_adsense_units") /\ AdsOn(config))
        => AdUnits(content) = AdUnits(step_input)

\* the scorer returns no product for c
NothingRelevant(c) ==
    find_relevant_products(products, c, RecommendationMaxProducts) = <<>>

\* C16: when the scorer returns no product for the content passed to
\* add_product_recommendations, the operation returns that content unchanged
\* (no block, not even one without cards), and process_content reports
\* product_recommendations = 0.
C16_NothingRelevantNoBlock ==
    /\ (LastCall = "add_product_recommendations" /\ NothingRelevant(step_input))
          => content = step_input
    /\ (pc = "processed" /\ NothingRelevant(linked_content))
          => monetization_report.product_recommendations = 0

\* process_content ran on a page with a heading and a paragraph for which no
\* product is relevant
C16_Witness ==
    /\ pc = "processed"
    /\ NothingRelevant(linked_content)
    /\ ParagraphEnds(linked_content) >= 1
    /\ conclusion_found(linked_content)

\* the configuration has every field the rewriter reads: the affiliate tag,
\* the ad-enabled flag, the ad client id, the affiliate-network entry
ConfigComplete(cfg) ==
    /\ associate_id_present(cfg)
    /\ "affiliate_programs" \in DOMAIN cfg.monetization
    /\ "google_adsense" \in DOMAIN cfg.monetization
    /\ "enabled" \in DOMAIN cfg.monetization.google_adsense
    /\ "client_id" \in DOMAIN cfg.monetization.google_adsense

\* C17: under a configuration that lacks a field the rewriter reads the
\* construction of the manager fails: no operation is ever called and no
\* content is changed.
C17_IncompleteConfigFailsConstruction ==
    (pc # "new" /\ ~ConfigComplete(config))
        => /\ pc = "raised"
           /\ call_log = <<>>
           /\ content = input_content

\* C18: once the manager is constructed no operation raises, whatever the
\* content (pages with an unbalanced '</p>' included), and an operation that
\* finds no place to insert returns its input unchanged.
C18_NoOperationRaises ==
    call_log # <<>> =>
        /\ error = "none"
        /\ (LastCall = "add_email_capture" /\ h2_match_end(step_input) = 0)
              => content = step_input
        /\ (LastCall = "add_google_adsense_units" /\ ParagraphEnds(step_input) <= 1)
              => content = step_input

\* the first match of every keyword that has one, in keyword-list order
RECURSIVE FirstMatchOfEach(_, _, _)
FirstMatchOfEach(c, keywords, j) ==
    IF j > Len(keywords) THEN <<>>
    ELSE (IF keyword_groups(c, keywords[j]) = <<>> THEN <<>>
          ELSE <<keyword_groups(c, keywords[j])[1]>>)
            \o FirstMatchOfEach(c, keywords, j + 1)

\* C19: for each ranked product the link insertion has at most 2 insertion
\* points, and they are the first two distinct keywords of the product, in
\* keyword-list order, that occur in the content: a keyword that occurs
\* several times gives one insertion point.
C19_OnePointPerKeyword ==
    (pc = "for_point" /\ point_i = 1) =>
        /\ Len(insertion_points) <= MaxInsertions
        /\ insertion_points =
              Prefix(FirstMatchOfEach(content,
                         products[relevant_products[prod_i]].keywords, 1),
                     MaxInsertions)

\* the <h2> tags of c whose own text, up to the next </h2>, contains
\* "conclusion" in any case
ConclusionHeadings(c) ==
    {i \in PositionsAfter(c, "<h2>", 0) :
        /\ PositionsAfter(c, "</h2>", i) # {}
        /\ \E p \in (i + 1)..Min(PositionsAfter(c, "</h2>", i)) :
              /\ LiteralAt(c, Conclusion, p)
              /\ p + Len(Conclusion) <= Min(PositionsAfter(c, "</h2>", i))}

\* the recommendation block for the content c
BlockFor(c) ==
    generate_recommendation_section(products,
        find_relevant_products(products, c, RecommendationMaxProducts))

\* c with the block, and the blank line behind it, in front of element i
BlockBefore(c, i) ==
    SubSeq(c, 1, i - 1) \o BlockFor(c) \o BlankLine \o SubSeq(c, i, Len(c))

\* C20: with at least one relevant product add_product_recommendations puts
\* exactly one recommendation block into the content and changes nothing
\* else: in front of an h2 heading whose own text contains "conclusion" if
\* there is one (with other headings in front of it or not, and also when
\* several headings qualify), at the end of the content otherwise.
C20_BlockBeforeConclusionHeading ==
    (LastCall = "add_product_recommendations" /\ ~NothingRelevant(step_input)) =>
        IF ConclusionHeadings(step_input) = {}
        THEN content = step_input \o BlankLine \o BlockFor(step_input)
        ELSE \E i \in ConclusionHeadings(step_input) :
                content = BlockBefore(step_input, i)

----------------------------------------------------------------------------
(* Properties of the inserted blocks *)

\* the chunk every product card starts with
CardOpen == "\n        <div class=\"product-card\">\n            <h3>"

\* the k-th smallest element of a set of positions
RECURSIVE Nth(_, _)
Nth(S, k) == IF k = 1 THEN Min(S) ELSE Nth(S \ {Min(S)}, k - 1)

\* x is a contiguous part of c that starts at position p
At(c, x, p) == p >= 1 /\ p + Len(x) - 1 <= Len(c) /\ SubSeq(c, p, p + Len(x) - 1) = x

\* the card that starts at position p of c shows the product: its name, its
\* price range, its description and, behind them, its link with the label
\* of its platform
CardShows(c, p, product) ==
    LET name_at == p + 1
        price_at == name_at + Len(product.name) + 1
        description_at == price_at + Len(product.price_range) + 2
        link_at == description_at + Len(product.description) + 2
        link == card_link(product)
        label_at == link_at + Len(link) + 1
    IN  /\ c[p] = CardOpen
        /\ At(c, product.name, name_at)
        /\ At(c, product.price_range, price_at)
        /\ At(c, product.description, description_at)
        /\ At(c, link, link_at)
        /\ \/ IsMarketplaceLink(link, product) /\ c[label_at] = "Amazon"
           \/ IsHopLink(link, product) /\ c[label_at] = "Get Guide"

\* the chunks a recommendation block starts and ends with
BlockOpen == "\n<div class=\"product-recommendations\">\n    "
BlockClose == "\n    </div>\n</div>\n"

\* the cards of the block that starts at position b of c
CardsIn(c, b) ==
    {p \in PositionsAfter(c, CardOpen, b) : p < Min(PositionsAfter(c, BlockClose, b))}

\* the products a fresh scorer run, capped at 3, returns for c
Ranked(c) == find_relevant_products(products, c, RecommendationMaxProducts)

\* C21: the recommendation block holds exactly one card per product that a
\* fresh scorer run, capped at 3, returns for the content passed to
\* add_product_recommendations (in process_content the content after the
\* link insertion), in rank order; each card shows the name, the price
\* range, the description and a platform-labelled link of its product.
C21_OneCardPerRankedProduct ==
    (LastCall = "add_product_recommendations"
        /\ PositionsAfter(step_input, BlockOpen, 0) = {}) =>
        /\ PositionsAfter(content, BlockOpen, 0) = {} <=> Ranked(step_input) = <<>>
        /\ Len(Ranked(step_input)) <= RecommendationMaxProducts
        /\ \A b \in PositionsAfter(content, BlockOpen, 0) :
              /\ Cardinality(CardsIn(content, b)) = Len(Ranked(step_input))
              /\ \A k \in 1..Len(Ranked(step_input)) :
                    CardShows(content, Nth(CardsIn(content, b), k),
                              products[Ranked(step_input)[k]])
        /\ caller = "process_content" => step_input = linked_content

\* process_content reached the recommendation step with a content that the
\* link insertion had changed, for which more than 3 products are relevant
\* and whose ranking differs from the ranking of the original content
C21_Witness ==
    /\ pc = "email_capture"
    /\ linked_content # input_content
    /\ Len(find_relevant_products(products, linked_content,
                                  RecommendationMaxProducts + 1)) > RecommendationMaxProducts
    /\ Ranked(linked_content) # Ranked(input_content)

\* the end of the first paragraph <p>...</p> behind the first </h2> of c:
\* the places q of a '</p>' such that a '<p>' stands behind the first '</h2>'
\* with no other '<p>' between them and no other '</p>' between it and q
FirstParagraphEnd(c) ==
    {q \in PositionsAfter(c, "</p>", 0) :
        \E h \in PositionsAfter(c, "</h2>", 0) :
            /\ \A k \in 1..(h - 1) : c[k] # "</h2>"
            /\ \E p \in (h + 1)..(q - 1) :
                  /\ c[p] = "<p>"
                  /\ \A k \in (h + 1)..(p - 1) : c[k] # "<p>"
                  /\ \A k \in (p + 1)..(q - 1) : c[k] # "</p>"}

\* the number of email-capture blocks in c
EmailBlocks(c) == Cardinality(PositionsAfter(c, EmailOpen, 0))

\* C22: add_email_capture inserts exactly one lead-magnet block, right
\* behind the first paragraph that follows the first closing h2 tag, and
\* leaves the rest of the content as it is; a content without a closing h2
\* tag followed by a paragraph <p>...</p> is returned unchanged.
C22_EmailBehindFirstParagraph ==
    LastCall = "add_email_capture" =>
        IF FirstParagraphEnd(step_input) = {}
        THEN content = step_input
        ELSE /\ \A q \in FirstParagraphEnd(step_input) :
                    content = SubSeq(step_input, 1, q) \o BlankLine
                                \o email_capture_html
                                \o SubSeq(step_input, q + 1, Len(step_input))
             /\ Cardinality(FirstParagraphEnd(step_input)) = 1
             /\ EmailBlocks(content) = EmailBlocks(step_input) + 1

\* the email step of process_content inserted its block into a content with
\* several closing h2 tags and several paragraphs behind the first of them
C22_Witness ==
    /\ pc = "adsense_units"
    /\ content # step_input
    /\ Cardinality(PositionsAfter(step_input, "</h2>", 0)) >= 2
    /\ Cardinality(PositionsAfter(step_input, "</p>",
                       Min(PositionsAfter(step_input, "</h2>", 0)))) >= 2

\* C23: add_google_adsense_units returns the content unchanged whenever the
\* ad-enabled flag of the configuration is false or the configured client
\* id is empty.
C23_AdsGatedOnFlagAndClientId ==
    (/\ LastCall = "add_google_adsense_units"
     /\ error = "none"
     /\ \/ ~config.monetization.google_adsense.enabled
        \/ config.monetization.google_adsense.client_id = <<>>)
        => content = step_input

\* the place of the second '</p>' of c
SecondParagraphEnd(c) == Nth(PositionsAfter(c, "</p>", 0), 2)

\* C24: with ads enabled, a non-empty client id and a content of at least
\* three segments, the output of add_google_adsense_units is the input with
\* one ad-unit snippet put in right behind the second '</p>' and nothing
\* else added or removed; the number of '</p>' (the snippet has none) stays
\* the same.
C24_OnlyTheSnippetIsAdded ==
    (/\ LastCall = "add_google_adsense_units"
     /\ error = "none"
     /\ config.monetization.google_adsense.enabled
     /\ config.monetization.google_adsense.client_id # <<>>
     /\ ParagraphEnds(step_input) >= 2)
        => /\ content =
                 SubSeq(step_input, 1, SecondParagraphEnd(step_input))
                    \o in_article_ad(config.monetization.google_adsense.client_id)
                    \o SubSeq(step_input, SecondParagraphEnd(step_input) + 1,
                              Len(step_input))
           /\ ParagraphEnds(content) = ParagraphEnds(step_input)

\* the number of anchors in c
Anchors(c) == Cardinality(PositionsAfter(c, AnchorOpen, 0))

\* C25: the list insert_affiliate_links returns has exactly one entry per
\* substitution made in the content: an insertion point whose search term no
\* longer occurs in the content as changed so far gets no entry, so the list
\* is as long as the number of anchors inserted.
C25_OneEntryPerAnchor ==
    pc = "returned" => Len(inserted_links) = Anchors(content) - Anchors(input_content)

\* the scorer finds a product in the text of a product name
NameIsRelevant(name) == ~NothingRelevant(name)

Inside(c, open, close, x) ==
    \E b \in PositionsAfter(c, open, 0) :
        \E p \in PositionsAfter(c, x, b) :
            /\ PositionsAfter(c, close, b) # {}
            /\ p < Min(PositionsAfter(c, close, b))

\* C27: in the content process_content returns no inserted block lies inside
\* another: the email-capture block is not inside the recommendation block,
\* and the ad unit is inside neither of the two.
C27_BlocksNotNested ==
    pc = "processed" =>
        /\ ~Inside(content, BlockOpen, BlockClose, EmailOpen)
        /\ ~Inside(content, BlockOpen, BlockClose, AdOpen)
        /\ ~Inside(content, EmailOpen, EmailForm, AdOpen)

\* the places of c at which the tag x, a run of elements, stands whole
TagOccurrences(c, x) == {p \in 1..Len(c) : At(c, x, p)}

\* the tags of the pages
PageTags == { <<"<h2>">>, <<"</h2>">>, <<"<p>">>, <<"</p>">>, ImgTag }

\* C28: insert_affiliate_links replaces keyword occurrences in the text
\* between tags only, never one inside a tag (such as the alt text of an
\* img), so every tag of the input stands unmodified in the output.
C28_TagsSurviveLinking ==
    pc = "returned" =>
        \A tag \in PageTags :
            Cardinality(TagOccurrences(content, tag))
                >= Cardinality(TagOccurrences(input_content, tag))

----------------------------------------------------------------------------
(* The orchestrator, scripts/automation_orchestrator                       *)
(*                                                                         *)
(* A post dictionary is a function from its keys to their values; a post   *)
(* content is the list of its words.  What the remote services return (the *)
(* drafted posts, the optimized title, the monetized content, whether a    *)
(* posting call succeeded) and which job is due are inputs.                *)

\* most files one generate_batch_content call returns (posts_per_batch)
MaxBatchPosts == 2

\* most passes of the polling loop that are followed
MaxPolls == 2

\* the content of a drafted post
DraftContent == << "Put", "baby", "down", "drowsy" >>

\* contents process_content returns for an optimized post
MonetizedContents ==
    { << "Put", "baby", "down", "drowsy" >>,
      << "Put", "baby", "down", "drowsy", "in", "a", "sleep", "sack" >> }

\* BabySleepContentGenerator.save_blog_post: the k-th file ever written
blog_post_file(k) ==
    [ frontmatter |-> [ title |-> << "Post", k >>,
                        slug |-> << "post", k >>,
                        keywords |-> << "baby sleep" >> ],
      content |-> DraftContent ]

\* d[key] = value
set_item(d, key, value) ==
    [ k \in DOMAIN d \cup {key} |-> IF k = key THEN value ELSE d[k] ]

\* d.pop(key): what is left of d (the value popped is d[key])
pop(d, key) == [ k \in DOMAIN d \ {key} |-> d[k] ]

\* the reply of optimize_title
optimized_title(title) == << "Optimized" >> \o title

\* SEOOptimizer.optimize_content: a copy of post_data with three keys set
optimize_content(post_data, optimized_content) ==
    set_item(set_item(set_item(post_data,
        "title", optimized_title(post_data["title"])),
        "content", optimized_content),
        "meta_description", << "About" >> \o post_data["title"])

\* save_optimized_post: the file written, and post_data as the call leaves it
save_optimized_post(post_data) ==
    [ file |-> [ frontmatter |-> pop(post_data, "content"),
                 content |-> post_data["content"] ],
      post_data |-> pop(post_data, "content") ]

\* load_existing_posts: one dictionary per file, with content and filename
load_existing_posts ==
    [ k \in DOMAIN posts_dir |->
        set_item(set_item(posts_dir[k].frontmatter,
            "content", posts_dir[k].content), "filename", k) ]

\* social_results before schedule_social_posts was called
Unbound == [ bound |-> FALSE, medium |-> <<>> ]

\* create_medium_article returns None where adapt_for_medium raises KeyError
medium_ready(blog_posts) ==
    IF medium_enabled
    THEN { i \in DOMAIN blog_posts : "content" \in DOMAIN blog_posts[i] }
    ELSE {}

\* schedule_social_posts, the Medium part: created are the posts whose
\* posting call succeeded
schedule_social_posts(blog_posts, created) ==
    [ bound |-> TRUE,
      medium |-> LET made == SelectSeq([ i \in DOMAIN blog_posts |-> i ],
                                       LAMBDA i : i \in created)
                 IN [ j \in DOMAIN made |-> blog_posts[made[j]]["slug"] ] ]

\* len(post['content'].split())
word_count(post_content) == Len(post_content)

\* the keys generate_daily_report reads with post[...]
ReportKeys == { "title", "slug", "content" }

\* the report generate_daily_report builds
report_of(posts, results) ==
    [ posts_generated |-> Len(posts),
      posts_details |->
          [ i \in DOMAIN posts |->
              [ title |-> posts[i]["title"],
                slug |-> posts[i]["slug"],
                word_count |-> word_count(posts[i]["content"]),
                keywords |-> IF "keywords" \in DOMAIN posts[i]
                             THEN posts[i]["keywords"] ELSE <<>> ] ],
      social_media |-> results.medium,
      total_posts |-> Len(load_existing_posts) ]

\* where the caller of generate_daily_content goes on when the call returns
after_return(at) ==
    CASE at = "initial" -> "polling"
      [] at = "job" -> "polling"
      [] at = "once" -> "once_sitemap"

\* and when the call raises an Exception
after_raise(at) ==
    CASE at = "initial" -> "terminated"
      [] at = "job" -> "retry"
      [] at = "once" -> "terminated"

\* the lines logged when generate_daily_content raises an Exception
raise_log(at) ==
    IF at = "job"
    THEN << "Daily content generation failed", "Automation error" >>
    ELSE << "Daily content generation failed" >>

\* the jobs of setup_automation_schedule that catch and log every Exception
CaughtJobs ==
    { "Weekly SEO audit", "Social media boost", "Monthly analytics report" }

OInit ==
    /\ products = load_affiliate_products
    /\ input_content = <<>>
    /\ content = <<>>
    /\ pc = "idle"
    /\ max_products = DefaultMaxProducts
    /\ scores = <<>>
    /\ scored = <<>>
    /\ relevant_products = <<>>
    /\ prod_i = 0
    /\ insertion_points = <<>>
    /\ point_i = 0
    /\ inserted_links = <<>>
    /\ recommendation_html = <<>>
    /\ config = FullConfig
    /\ caller = "none"
    /\ monetization_report = EmptyReport
    /\ linked_content = <<>>
    /\ step_input = <<>>
    /\ call_log = <<>>
    /\ error = "none"
    /\ mode \in { "run", "once" }
    /\ opc = "main"
    /\ gpc = "idle"
    /\ posts_dir = <<>>
    /\ generated_files = <<>>
    /\ file_i = 0
    /\ processed_posts = <<>>
    /\ social_results = Unbound
    /\ medium_enabled \in BOOLEAN
    /\ daily_report = <<>>
    /\ log = <<>>
    /\ raised = "none"
    /\ polls = 0

\* run_automation up to the call of the initial generate_daily_content
RunAutomation ==
    /\ opc = "main"
    /\ mode = "run"
    /\ opc' = "initial"
    /\ gpc' = "batch"
    /\ UNCHANGED << mode, posts_dir, generated_files, file_i, processed_posts,
                    social_results, medium_enabled, daily_report, log, raised,
                    polls >>

\* run_once up to the call of generate_daily_content
RunOnce ==
    /\ opc = "main"
    /\ mode = "once"
    /\ opc' = "once"
    /\ gpc' = "batch"
    /\ UNCHANGED << mode, posts_dir, generated_files, file_i, processed_posts,
                    social_results, medium_enabled, daily_report, log, raised,
                    polls >>

\* generate_daily_content up to its for loop
GenerateBatch ==
    /\ gpc = "batch"
    /\ \/ \* the configuration lookup or generate_batch_content raises
          /\ gpc' = "idle"
          /\ opc' = after_raise(opc)
          /\ log' = log \o raise_log(opc)
          /\ raised' = IF after_raise(opc) = "terminated"
                       THEN "Exception" ELSE raised
          /\ UNCHANGED << posts_dir, generated_files, file_i,
                          processed_posts, social_results >>
       \/ \* no file: "No content generated today", return
          /\ gpc' = "idle"
          /\ opc' = after_return(opc)
          /\ log' = Append(log, "No content generated today")
          /\ UNCHANGED << posts_dir, generated_files, file_i,
                          processed_posts, social_results, raised >>
       \/ \E n \in 1..MaxBatchPosts :
             /\ posts_dir' = posts_dir \o
                    [ i \in 1..n |-> blog_post_file(Len(posts_dir) + i) ]
             /\ generated_files' = [ i \in 1..n |-> Len(posts_dir) + i ]
             /\ processed_posts' = <<>>
             /\ social_results' = Unbound
             /\ file_i' = 1
             /\ gpc' = "posts"
             /\ UNCHANGED << opc, log, raised >>
    /\ UNCHANGED << mode, medium_enabled, daily_report, polls >>

\* one pass of the for loop of generate_daily_content
ProcessPost ==
    /\ gpc = "posts"
    /\ file_i <= Len(generated_files)
    /\ LET filepath == generated_files[file_i]
           frontmatter == set_item(posts_dir[filepath].frontmatter,
                                   "content", posts_dir[filepath].content)
       IN \/ \* optimize_content or process_content raises: logged
             /\ log' = Append(log, "Failed to process")
             /\ UNCHANGED << posts_dir, processed_posts >>
          \/ \E monetized_content \in MonetizedContents :
                \* optimized_post['content'] = monetized_content
                LET optimized_post ==
                        set_item(optimize_content(frontmatter,
                                                  frontmatter["content"]),
                                 "content", monetized_content)
                    saved == save_optimized_post(optimized_post)
                IN /\ posts_dir' = [ posts_dir EXCEPT ![filepath] = saved.file ]
                   /\ processed_posts' =
                          Append(processed_posts, saved.post_data)
                   /\ UNCHANGED log
    /\ file_i' = file_i + 1
    /\ UNCHANGED << mode, opc, gpc, generated_files, social_results,
                    medium_enabled, daily_report, raised, polls >>

\* if processed_posts: social_results = schedule_social_posts(...)
ScheduleSocialPosts ==
    /\ gpc = "posts"
    /\ file_i > Len(generated_files)
    /\ IF processed_posts # <<>>
       THEN \E created \in SUBSET medium_ready(processed_posts) :
               social_results' =
                   schedule_social_posts(processed_posts, created)
       ELSE UNCHANGED social_results
    /\ gpc' = "sitemap"
    /\ UNCHANGED << mode, opc, posts_dir, generated_files, file_i,
                    processed_posts, medium_enabled, daily_report, log,
                    raised, polls >>

\* update_sitemap, which logs what it catches
UpdateSitemap ==
    /\ gpc = "sitemap"
    /\ \E written \in BOOLEAN :
          log' = IF written THEN log
                 ELSE Append(log, "Failed to update sitemap")
    /\ gpc' = "report"
    /\ UNCHANGED << mode, opc, posts_dir, generated_files, file_i,
                    processed_posts, social_results, medium_enabled,
                    daily_report, raised, polls >>

\* generate_daily_report and the end of generate_daily_content
GenerateDailyReport ==
    /\ gpc = "report"
    /\ gpc' = "idle"
    /\ IF \A i \in DOMAIN processed_posts :
              ReportKeys \subseteq DOMAIN processed_posts[i]
       THEN /\ daily_report' = << report_of(processed_posts, social_results) >>
            /\ opc' = after_return(opc)
            /\ UNCHANGED << log, raised >>
       ELSE \* KeyError, logged and raised again by generate_daily_content
            /\ opc' = after_raise(opc)
            /\ log' = log \o raise_log(opc)
            /\ raised' = IF after_raise(opc) = "terminated"
                         THEN "KeyError" ELSE raised
            /\ UNCHANGED daily_report
    /\ UNCHANGED << mode, posts_dir, generated_files, file_i, processed_posts,
                    social_results, medium_enabled, polls >>

\* run_once after generate_daily_content returned
RunOnceSitemap ==
    /\ opc = "once_sitemap"
    /\ \E written \in BOOLEAN :
          log' = IF written THEN log
                 ELSE Append(log, "Failed to update sitemap")
    /\ opc' = "finished"
    /\ UNCHANGED << mode, gpc, posts_dir, generated_files, file_i,
                    processed_posts, social_results, medium_enabled,
                    daily_report, raised, polls >>

\* one pass of the while loop: schedule.run_pending() with at most one job due
Poll ==
    /\ opc = "polling"
    /\ polls < MaxPolls
    /\ polls' = polls + 1
    /\ \/ \* nothing is due
          UNCHANGED << opc, gpc, log >>
       \/ \* generate_daily_content is due
          /\ opc' = "job"
          /\ gpc' = "batch"
          /\ UNCHANGED log
       \/ \E job \in CaughtJobs, done \in BOOLEAN :
             /\ log' = IF done THEN log ELSE Append(log, job \o " failed")
             /\ UNCHANGED << opc, gpc >>
    /\ UNCHANGED << mode, posts_dir, generated_files, file_i, processed_posts,
                    social_results, medium_enabled, daily_report, raised >>

\* except Exception: the error is logged, time.sleep(300), next pass
Retry ==
    /\ opc = "retry"
    /\ opc' = "polling"
    /\ UNCHANGED << mode, gpc, posts_dir, generated_files, file_i,
                    processed_posts, social_results, medium_enabled,
                    daily_report, log, raised, polls >>

\* a KeyboardInterrupt reaches the process
KeyboardInterrupt ==
    /\ opc \in { "initial", "once", "once_sitemap", "polling", "job", "retry" }
    /\ gpc' = "idle"
    /\ IF opc \in { "polling", "job" }
       THEN \* inside the try of the loop: "Automation stopped by user", break
            /\ opc' = "stopped"
            /\ UNCHANGED raised
       ELSE /\ opc' = "terminated"
            /\ raised' = "KeyboardInterrupt"
    /\ UNCHANGED << mode, posts_dir, generated_files, file_i, processed_posts,
                    social_results, medium_enabled, daily_report, log, polls >>

ONext ==
    \/ RunAutomation /\ UNCHANGED avars
    \/ RunOnce /\ UNCHANGED avars
    \/ GenerateBatch /\ UNCHANGED avars
    \/ ProcessPost /\ UNCHANGED avars
    \/ ScheduleSocialPosts /\ UNCHANGED avars
    \/ UpdateSitemap /\ UNCHANGED avars
    \/ GenerateDailyReport /\ UNCHANGED avars
    \/ RunOnceSitemap /\ UNCHANGED avars
    \/ Poll /\ UNCHANGED avars
    \/ Retry /\ UNCHANGED avars
    \/ KeyboardInterrupt /\ UNCHANGED avars

OrchSpec == OInit /\ [][ONext]_vars

----------------------------------------------------------------------------
(* Properties of the orchestrator *)

\* the for loop of generate_daily_content ran to its end and every
\* generated file was processed
EveryPostProcessed ==
    /\ generated_files # <<>>
    /\ file_i > Len(generated_files)
    /\ Len(processed_posts) = Len(generated_files)

\* C29: save_optimized_post leaves the post dictionary as it was given:
\* every post of processed_posts still carries its 'content', and a run of
\* generate_daily_content in which every post was processed raises nothing
C29_ProcessedPostsKeepContent ==
    /\ \A i \in DOMAIN processed_posts :
          "content" \in DOMAIN processed_posts[i]
    /\ EveryPostProcessed => raised \in { "none", "KeyboardInterrupt" }

\* C30: in run_automation no failure of a job, the initial content
\* generation included, ends the automation: it ends by a keyboard
\* interrupt only
C30_OnlyInterruptEndsAutomation ==
    (mode = "run" /\ opc = "terminated") => raised = "KeyboardInterrupt"

====
